---- MODULE Spec2Model ----
(***************************************************************************)
(* Notion MCP server (Smithery packaging).  The repository holds several   *)
(* versions of the entry point createServer:                               *)
(*   "index"    src/src/index.ts      four hand-written tools              *)
(*   "six"      src/unnamed/part_003  the same with six tools              *)
(*   "listonly" src/unnamed/part_002  lists one tool, no call handler      *)
(*   "proxy"    src/unnamed/part_000  (and part_001) delegates to initProxy*)
(* The model keeps the process environment, the servers createServer has   *)
(* returned, the last startup attempt and one request (tools/list or       *)
(* tools/call) in flight, a call suspended at its awaits on the HTTP       *)
(* client.  Spec is a process whose createServer is called once;           *)
(* SpecRestarts one where it is called several times; SpecConcurrent runs  *)
(* two tools/call requests of one server at the same time, in the variable *)
(* calls.                                                                  *)
(*                                                                         *)
(* JavaScript values are tagged records [t, v]; strings built by template  *)
(* literals or + are tuples of their pieces, so that what a text contains  *)
(* can be asked of it.                                                     *)
(***************************************************************************)
EXTENDS Integers, Sequences, FiniteSets, TLC

VARIABLES env, servers, startup, pending, call, calls

vars == <<env, servers, startup, pending, call, calls>>

-----------------------------------------------------------------------------
(* Bounds of the model *)

\* servers one process creates
MaxServers == 1
\* createServer calls in one process, where the process makes several
MaxAttempts == 2
\* nesting of child-block listings below the page
MaxDepth == 1

-----------------------------------------------------------------------------
(* JavaScript values *)

Undef == [t |-> "undef", v |-> ""]
Str(s) == [t |-> "str", v |-> s]
Num(s) == [t |-> "num", v |-> s]

\* JS truthiness of a string, number or undefined
Truthy(x) == \/ x.t = "str" /\ x.v # ""
             \/ x.t = "num" /\ x.v # "0"

\* ${x} in a template literal
ToStr(x) == IF x.t = "undef" THEN "undefined" ELSE x.v

\* args.f of an arguments object (a function from its own keys to values)
Get(args, f) == IF f \in DOMAIN args THEN args[f] ELSE Undef

\* String.prototype.startsWith on strings held as tuples of characters
StartsWith(s, p) == /\ Len(s) >= Len(p)
                    /\ \A i \in 1..Len(p) : s[i] = p[i]

Last(s) == s[Len(s)]

\* The characters of a string, for the strings that hold a character with a
\* meaning in a URL; any other string stands as one piece.
Chars(s) == CASE s = "p1/x?y" -> <<"p", "1", "/", "x", "?", "y">>
              [] OTHER -> <<s>>

-----------------------------------------------------------------------------
(* Configuration *)

Variants == {"index", "six", "listonly", "proxy"}

\* Tokens, as characters: two well-formed ones, one that stops short of the
\* underscore, one that only contains a prefix, and the empty string.
TokSecret == <<"s", "e", "c", "r", "e", "t", "_", "a">>
TokNtn == <<"n", "t", "n", "_", "b">>
TokShort == <<"s", "e", "c", "r", "e", "t">>
TokInner == <<"x", "n", "t", "n", "_">>
TokEmpty == <<>>

DefaultBaseUrl == "https://api.notion.com"
CustomBaseUrl == "https://proxy.example"
BadBaseUrl == "not a url"

\* An optional string of a raw configuration object
Absent == [present |-> FALSE, s |-> <<>>]
Given(s) == [present |-> TRUE, s |-> s]

HeaderJson == <<"{headers}">>

Raw(tok, hdr, url) == [notionToken |-> tok, openapiMcpHeaders |-> hdr, baseUrl |-> url]

\* The configuration objects tried: a token alone, headers alone, both,
\* neither (left out, or empty strings), ill-formed tokens, an ill-formed URL.
RawConfigs ==
    {Raw(Given(TokSecret), Absent, ""),
     Raw(Given(TokNtn), Absent, CustomBaseUrl),
     Raw(Given(TokSecret), Given(HeaderJson), ""),
     Raw(Absent, Given(HeaderJson), CustomBaseUrl),
     Raw(Absent, Absent, ""),
     Raw(Given(TokEmpty), Given(<<>>), ""),
     Raw(Given(TokShort), Absent, ""),
     Raw(Given(TokInner), Absent, CustomBaseUrl),
     Raw(Given(TokNtn), Absent, BadBaseUrl)}

\* a string option of the configuration is truthy when given and not empty
Supplied(o) == o.present /\ o.s # <<>>

\* z.string().url()
IsUrl(u) == u \in {DefaultBaseUrl, CustomBaseUrl}

\* z.string().default("https://api.notion.com"); "" stands for a key left out
WithDefault(u) == IF u = "" THEN DefaultBaseUrl ELSE u

\* configSchema of the hand-written servers: notionToken is a required string
ConfigSchemaPlain(raw) == raw.notionToken.present

\* configSchema of the proxy servers: both credentials optional, baseUrl a URL,
\* refined by data.notionToken || data.openapiMcpHeaders
ConfigSchemaProxy(raw) ==
    /\ IsUrl(WithDefault(raw.baseUrl))
    /\ Supplied(raw.notionToken) \/ Supplied(raw.openapiMcpHeaders)

ConfigSchema(variant, raw) ==
    IF variant = "proxy" THEN ConfigSchemaProxy(raw) ELSE ConfigSchemaPlain(raw)

\* The parsed Config handed to createServer: the default filled in, and the
\* keys the schema does not declare stripped.
Parse(variant, raw) ==
    [notionToken |-> raw.notionToken,
     openapiMcpHeaders |-> IF variant = "proxy" THEN raw.openapiMcpHeaders ELSE Absent,
     baseUrl |-> WithDefault(raw.baseUrl)]

-----------------------------------------------------------------------------
(* createServer *)

\* the token format check of the hand-written servers
TokenFormatOk(tok) ==
    \/ StartsWith(tok, <<"s", "e", "c", "r", "e", "t", "_">>)
    \/ StartsWith(tok, <<"n", "t", "n", "_">>)

\* request handlers each version registers on the server it returns
Handlers(variant) ==
    CASE variant = "index" -> {"initialize", "tools/list", "tools/call"}
      [] variant = "six" -> {"initialize", "tools/list", "tools/call"}
      [] variant = "listonly" -> {"initialize", "tools/list"}
      [] variant = "proxy" -> {"initialize", "tools/list", "tools/call"}

NoConfig == [notionToken |-> Absent, openapiMcpHeaders |-> Absent, baseUrl |-> ""]

NoServer == [variant |-> "none", config |-> NoConfig, handlers |-> {}]

NewServer(variant, config) ==
    [variant |-> variant, config |-> config, handlers |-> Handlers(variant)]

\* process.env before any createServer call
NoEnv == [NOTION_TOKEN |-> Absent, OPENAPI_MCP_HEADERS |-> Absent,
          BASE_URL |-> Absent]

\* process.env after the assignments of the hand-written createServer
EnvPlain(e, config) ==
    [e EXCEPT !.NOTION_TOKEN = Given(config.notionToken.s),
              !.BASE_URL = Given(<<config.baseUrl>>)]

\* process.env after the assignments of the proxy createServer
EnvProxy(e, config) ==
    LET e1 == IF Supplied(config.notionToken)
                 THEN [e EXCEPT !.NOTION_TOKEN = Given(config.notionToken.s)]
              ELSE IF Supplied(config.openapiMcpHeaders)
                 THEN [e EXCEPT !.OPENAPI_MCP_HEADERS = Given(config.openapiMcpHeaders.s)]
              ELSE e
    IN  IF config.baseUrl # "" THEN [e1 EXCEPT !.BASE_URL = Given(<<config.baseUrl>>)]
        ELSE e1

\* a createServer without the token format check
CreateServerUnchecked(variant, config, e) ==
    [outcome |-> "returned", error |-> "",
     env |-> EnvPlain(e, config), server |-> NewServer(variant, config)]

\* a createServer that assigns process.env before it checks the token
CreateServerEnvFirst(variant, config, e) ==
    IF ~TokenFormatOk(config.notionToken.s)
    THEN [outcome |-> "thrown", error |-> "Invalid Notion token format",
          env |-> EnvPlain(e, config), server |-> NoServer]
    ELSE [outcome |-> "returned", error |-> "",
          env |-> EnvPlain(e, config), server |-> NewServer(variant, config)]

\* The synchronous createServer of index.ts, part_002 and part_003: what it
\* leaves behind.  Everything is inside one try whose catch rethrows.
CreateServerPlain(variant, config, e) ==
    IF ~TokenFormatOk(config.notionToken.s)
    THEN [outcome |-> "thrown", error |-> "Invalid Notion token format",
          env |-> e, server |-> NoServer]
    ELSE [outcome |-> "returned", error |-> "",
          env |-> EnvPlain(e, config), server |-> NewServer(variant, config)]

\* what the awaited initProxy can do, as its call site tells them apart
InitProxyOutcomes == {"ok", "ValidationError", "Error"}

\* the rest of the proxy createServer once initProxy has settled
CreateServerProxyEnd(config, initOutcome) ==
    IF initOutcome = "ok"
    THEN [outcome |-> "returned", error |-> "", server |-> NewServer("proxy", config)]
    ELSE [outcome |-> "thrown", error |-> initOutcome, server |-> NoServer]

\* the last createServer attempt, the token of the config it was called with,
\* how many attempts there were, how many returned and how many the process
\* makes (one for each session the platform opens)
NoStartup == [n |-> 0, returned |-> 0, outcome |-> "none", error |-> "",
              token |-> <<>>, limit |-> 1]

NoPending == [active |-> FALSE, config |-> NoConfig]

\* The platform validates the raw configuration with the exported configSchema
\* and only then calls createServer.
Rejected(variant, raw) ==
    /\ startup.n < startup.limit
    /\ ~pending.active
    /\ ~ConfigSchema(variant, raw)
    /\ startup' = [startup EXCEPT !.n = @ + 1, !.outcome = "config_rejected",
                                  !.error = "ZodError"]
    /\ UNCHANGED <<env, servers, pending, call, calls>>

ConfigRejected == \E variant \in Variants, raw \in RawConfigs : Rejected(variant, raw)

CreatePlain(variant, raw) ==
    /\ startup.n < startup.limit
    /\ ~pending.active
    /\ ConfigSchema(variant, raw)
    /\ LET r == CreateServerPlain(variant, Parse(variant, raw), env)
       IN  /\ r.outcome = "returned" => Cardinality(servers) < MaxServers
           /\ env' = r.env
           /\ servers' = IF r.outcome = "returned" THEN servers \cup {r.server}
                         ELSE servers
           /\ startup' = [startup EXCEPT
                              !.n = @ + 1,
                              !.token = Parse(variant, raw).notionToken.s,
                              !.outcome = r.outcome, !.error = r.error,
                              !.returned = IF r.outcome = "returned" THEN @ + 1
                                           ELSE @]
    /\ UNCHANGED <<pending, call, calls>>

CreateServer == \E variant \in {"index", "six", "listonly"}, raw \in RawConfigs :
                    CreatePlain(variant, raw)

\* the proxy createServer up to its await of initProxy
ProxyBegin(raw) ==
    /\ startup.n < startup.limit
    /\ ~pending.active
    /\ ConfigSchema("proxy", raw)
    /\ env' = EnvProxy(env, Parse("proxy", raw))
    /\ pending' = [active |-> TRUE, config |-> Parse("proxy", raw)]
    /\ startup' = [startup EXCEPT !.n = @ + 1, !.outcome = "pending",
                                  !.token = Parse("proxy", raw).notionToken.s,
                                  !.error = ""]
    /\ UNCHANGED <<servers, call, calls>>

CreateServerProxy == \E raw \in RawConfigs : ProxyBegin(raw)

\* initProxy settles and the proxy createServer returns or rethrows
ProxyEnd(initOutcome) ==
    /\ pending.active
    /\ LET r == CreateServerProxyEnd(pending.config, initOutcome)
       IN  /\ r.outcome = "returned" => Cardinality(servers) < MaxServers
           /\ servers' = IF r.outcome = "returned" THEN servers \cup {r.server}
                         ELSE servers
           /\ startup' = [startup EXCEPT
                              !.outcome = r.outcome, !.error = r.error,
                              !.returned = IF r.outcome = "returned" THEN @ + 1
                                           ELSE @]
    /\ pending' = NoPending
    /\ UNCHANGED <<env, call, calls>>

InitProxySettles == \E o \in InitProxyOutcomes : ProxyEnd(o)

-----------------------------------------------------------------------------
(* tools/list *)

\* the names in the tools array of each version's ListToolsRequestSchema handler
ListedTools(variant) ==
    CASE variant = "index" ->
             <<"search_notion", "get_page_content", "create_page", "update_page">>
      [] variant = "six" ->
             <<"search_notion", "get_page_content", "create_page", "update_page",
               "list_databases", "query_database">>
      [] variant = "listonly" -> <<"notion-test">>
      [] OTHER -> <<>>

\* the case labels of the switch in each version's CallToolRequestSchema handler
BoundTools(variant) ==
    CASE variant = "index" ->
             {"search_notion", "get_page_content", "create_page", "update_page"}
      [] variant = "six" ->
             {"search_notion", "get_page_content", "create_page", "update_page",
              "list_databases", "query_database"}
      [] OTHER -> {}

\* inputSchema.properties of a listed tool
Props(name) ==
    CASE name = "search_notion" -> {"query"}
      [] name = "get_page_content" -> {"page_id"}
      [] name = "create_page" -> {"title", "parent_id", "content"}
      [] name = "update_page" -> {"page_id", "title", "content"}
      [] name = "list_databases" -> {}
      [] name = "query_database" -> {"database_id", "filter", "page_size"}
      [] name = "notion-test" -> {"message"}
      [] OTHER -> {}

\* inputSchema.required of a listed tool
Required(name) ==
    CASE name = "search_notion" -> {"query"}
      [] name = "get_page_content" -> {"page_id"}
      [] name = "create_page" -> {"title", "parent_id"}
      [] name = "update_page" -> {"page_id"}
      [] name = "query_database" -> {"database_id"}
      [] OTHER -> {}

-----------------------------------------------------------------------------
(* The HTTP client and what the upstream can answer *)

\* a client that resolves the credentials from process.env at each call
NotionClientFromEnv(config) ==
    [baseURL |-> IF env.BASE_URL.present THEN env.BASE_URL.s[1] ELSE config.baseUrl,
     headers |-> [Authorization |-> <<"Bearer ">> \o env.NOTION_TOKEN.s,
                  NotionVersion |-> "2022-06-28",
                  ContentType |-> "application/json"]]

\* axios.create({ baseURL, headers }) of the call handler
NotionClient(config) ==
    [baseURL |-> config.baseUrl,
     headers |-> [Authorization |-> <<"Bearer ">> \o config.notionToken.s,
                  NotionVersion |-> "2022-06-28",
                  ContentType |-> "application/json"]]

\* a request that replaces the instance's headers by its own
RequestOwnHeaders(client, method, url, hasBody, data) ==
    [method |-> method, baseURL |-> client.baseURL, url |-> url,
     headers |-> [client.headers EXCEPT !.Authorization = <<"Bearer ">>],
     hasBody |-> hasBody, data |-> data]

\* notionClient.get(url) / .post(url, data) / .patch(url, data): the request
\* carries the instance's base URL and headers; data is a set of <<key, value>>
Request(client, method, url, hasBody, data) ==
    [method |-> method, baseURL |-> client.baseURL, url |-> url,
     headers |-> client.headers, hasBody |-> hasBody, data |-> data]

Item1 == [object |-> "page", title |-> Undef, id |-> "i1"]
Item2 == [object |-> "database", title |-> Str("Notes"), id |-> "i2"]
ItemLists == {<<>>, <<Item1>>, <<Item1, Item2>>}

Page1 == [id |-> Str("pg"), title |-> Str("Title")]
Page2 == [id |-> Str("pg"), title |-> Undef]
NoPage == [id |-> Undef, title |-> Undef]

BlockPara == [id |-> "b1", type |-> "paragraph", rich |-> TRUE, text |-> "para",
              checked |-> FALSE, has_children |-> FALSE]
BlockHead == [id |-> "b2", type |-> "heading_1", rich |-> TRUE, text |-> "head",
              checked |-> FALSE, has_children |-> TRUE]
BlockTodo == [id |-> "b3", type |-> "to_do", rich |-> TRUE, text |-> "",
              checked |-> TRUE, has_children |-> TRUE]
BlockDivider == [id |-> "b4", type |-> "divider", rich |-> FALSE, text |-> "",
                 checked |-> FALSE, has_children |-> FALSE]
\* the children listings the upstream answers with
BlockLists == {<<>>, <<BlockPara>>, <<BlockDivider>>, <<BlockHead, BlockPara>>,
               <<BlockHead, BlockTodo>>}

HasChildren(blocks) == \E i \in 1..Len(blocks) : blocks[i].has_children

UpstreamMessage == "Could not find page"

\* a response with a 2xx status and its body
Ok(hasResults, results, page, id) ==
    [kind |-> "2xx", status |-> "200", dataMessage |-> Undef, code |-> "",
     hasResults |-> hasResults, results |-> results, page |-> page, id |-> id]
\* a response with a 4xx or 5xx status, with or without a message in its body
Http(status, dataMessage) ==
    [kind |-> "http", status |-> status, dataMessage |-> dataMessage, code |-> "",
     hasResults |-> FALSE, results |-> <<>>, page |-> NoPage, id |-> Undef]
\* no response at all
Transport(code) ==
    [kind |-> "transport", status |-> "", dataMessage |-> Undef, code |-> code,
     hasResults |-> FALSE, results |-> <<>>, page |-> NoPage, id |-> Undef]

Failures == {Http("404", Str(UpstreamMessage)), Http("500", Undef),
             Transport("connect ECONNREFUSED")}

\* what the upstream can answer to the request a call is waiting on; below
\* MaxDepth levels of nesting the listings hold no block with children
Outcomes(stage, depth) ==
    Failures \cup
    CASE stage \in {"search", "listdb", "querydb"} ->
             {Ok(FALSE, <<>>, NoPage, Undef)} \cup
             {Ok(TRUE, r, NoPage, Undef) : r \in ItemLists}
      [] stage = "page" -> {Ok(FALSE, <<>>, p, Undef) : p \in {Page1, Page2}}
      [] stage \in {"blocks", "child"} ->
             {Ok(FALSE, <<>>, NoPage, Undef)} \cup
             {Ok(TRUE, r, NoPage, Undef) :
                 r \in {l \in BlockLists : depth < MaxDepth \/ ~HasChildren(l)}}
      [] stage = "create" -> {Ok(FALSE, <<>>, NoPage, i) : i \in {Str("new"), Undef}}
      [] OTHER -> {Ok(FALSE, <<>>, NoPage, Undef)}

-----------------------------------------------------------------------------
(* Errors and results *)

\* TypeError: Cannot read properties of undefined (reading 'f')
TypeErrorReading(f) ==
    [hasResponse |-> FALSE, status |-> "", dataMessage |-> Undef,
     message |-> <<"Cannot read properties of undefined (reading '", f, "')">>]

\* TypeError of for...of over undefined, or of .length / .map of undefined
TypeErrorNoResults ==
    [hasResponse |-> FALSE, status |-> "", dataMessage |-> Undef,
     message |-> <<"undefined is not iterable">>]

\* SyntaxError of JSON.parse
SyntaxErrorJson ==
    [hasResponse |-> FALSE, status |-> "", dataMessage |-> Undef,
     message |-> <<"Unexpected token in JSON">>]

\* new Error(`Unknown tool: ${name}`)
UnknownToolError(name) ==
    [hasResponse |-> FALSE, status |-> "", dataMessage |-> Undef,
     message |-> <<"Unknown tool: ", name>>]

\* the error axios rejects with: with a response for a 4xx/5xx status, without
\* one when nothing came back
AxiosError(o) ==
    IF o.kind = "http"
    THEN [hasResponse |-> TRUE, status |-> o.status, dataMessage |-> o.dataMessage,
          message |-> <<"Request failed with status code ", o.status>>]
    ELSE [hasResponse |-> FALSE, status |-> "", dataMessage |-> Undef,
          message |-> <<o.code>>]

\* a catch that logs and rethrows, as createServer's does
CatchRethrows(error) ==
    [settled |-> "thrown", isError |-> FALSE, text |-> error.message]

\* The value the handler's catch returns.  isError = FALSE stands for a result
\* without the isError key.
CatchBlock(error) ==
    [settled |-> "returned", isError |-> TRUE,
     text |-> <<"Error: ">> \o (IF Truthy(error.dataMessage)
                                THEN <<error.dataMessage.v>> ELSE error.message)]

Success(text) == [settled |-> "returned", isError |-> FALSE, text |-> text]

NoResult == [settled |-> "no", isError |-> FALSE, text |-> <<>>]

\* the answer of the protocol layer to a request no handler is registered for
MethodNotFound == [settled |-> "rpc_error", isError |-> FALSE,
                   text |-> <<"Method not found">>]

-----------------------------------------------------------------------------
(* The CallToolRequestSchema handler *)

Numeral(n) == CASE n = 0 -> "0" [] n = 1 -> "1" [] n = 2 -> "2" [] n = 3 -> "3"
                [] OTHER -> "many"

\* JSON.parse succeeds on the texts that are JSON
JsonValid(x) == x.v \in {"{}"}

\* What a call keeps of the answers it got: how many, whether all of them were
\* well-formed 2xx responses, and of the latest the await it settled, its kind,
\* its status, the message of its body and whether the body had the shape the
\* handler reads; and, in order, the answers to its block-children requests
\* (a listing, or none when the request failed or the body had no results).
NoAnswer == [stage |-> "", kind |-> "", status |-> "", dataMessage |-> Undef,
             code |-> "", wellFormed |-> FALSE]

Brief(stage, o) ==
    [stage |-> stage, kind |-> o.kind, status |-> o.status,
     dataMessage |-> o.dataMessage, code |-> o.code,
     wellFormed |-> o.kind = "2xx" /\ (o.hasResults \/ stage \in {"page", "create", "update"})]

Listing(o) == [ok |-> o.kind = "2xx" /\ o.hasResults, blocks |-> o.results]

Answered(c, o) ==
    [c EXCEPT !.answered = @ + 1, !.last = Brief(c.stage, o),
              !.allWell = @ /\ Brief(c.stage, o).wellFormed,
              !.listings = IF c.stage \in {"blocks", "child"}
                           THEN Append(@, Listing(o)) ELSE @]

IdleCall == [pc |-> "idle", method |-> "", srv |-> NoServer, name |-> "",
             hasArgs |-> FALSE,
             args |-> <<>>, reqs |-> <<>>, answered |-> 0, allWell |-> TRUE,
             last |-> NoAnswer, listings |-> <<>>, stage |-> "", page |-> NoPage,
             stack |-> <<>>, result |-> NoResult]

\* the handler suspends at an await of the request it has just issued
Await(c, req, stage) ==
    [c EXCEPT !.pc = "waiting", !.reqs = Append(@, req), !.stage = stage]

\* the handler's promise settles with a value
Settle(c, result) ==
    [c EXCEPT !.pc = "done", !.stage = "", !.stack = <<>>, !.result = result]

\* one line of extractTextFromBlocks for a block, as the pieces it appends
Render(b) ==
    IF ~b.rich THEN <<>>
    ELSE CASE b.type = "paragraph" -> <<b.text, "\n">>
           [] b.type = "heading_1" -> <<"# ", b.text, "\n">>
           [] b.type = "heading_2" -> <<"## ", b.text, "\n">>
           [] b.type = "heading_3" -> <<"### ", b.text, "\n">>
           [] b.type = "bulleted_list_item" -> <<"* ", b.text, "\n">>
           [] b.type = "numbered_list_item" -> <<"1. ", b.text, "\n">>
           [] b.type = "to_do" ->
                  <<IF b.checked THEN "[x] " ELSE "[ ] ", b.text, "\n">>
           [] b.type = "quote" -> <<"> ", b.text, "\n">>
           [] b.type = "code" -> <<"(fence)", "\n", b.text, "\n(fence)\n">>
           [] OTHER -> <<>>

\* !content.trim(): nothing but white space
Blank(content) == \A i \in 1..Len(content) : content[i] \in {"", "\n"}

\* generateSummary, without the counts and the first lines it quotes
GenerateSummary(content) ==
    IF Blank(content)
    THEN <<"This page appears to be empty or contains only structural elements.">>
    ELSE <<"**Content Summary:**">>

\* the text get_page_content returns in index.ts (the dates are left out)
PageText(page, content) ==
    <<"# ", IF Truthy(page.title) THEN page.title.v ELSE "Untitled",
      "ID: ", ToStr(page.id), "**Page Content:**">>
    \o (IF content = <<>> THEN <<"*No content found*">> ELSE content)
    \o GenerateSummary(content)

\* the text get_page_content returns in part_003
PageTextSix(page) ==
    <<"**", IF Truthy(page.title) THEN page.title.v ELSE "Untitled", "**",
      "Page ID: ", ToStr(page.id)>>

ChildrenUrl(id) == <<"/v1/blocks/", id, "/children">>

\* extractTextFromBlocks, run from a stack of its activations (each the blocks
\* it iterates, the index of the current block and its local content) up to the
\* next await or to the return of the outermost activation.  fresh tells
\* whether the current block is still to be rendered or its children have just
\* been dealt with.
RECURSIVE Extract(_, _)

\* a traversal that fetches the children of the first block of a listing only
ExtractFirstChildOnly(c, fresh) ==
    LET d == Len(c.stack)
        top == c.stack[d]
    IN  IF top.i > Len(top.blocks)
        THEN IF d = 1
             THEN Settle(c, Success(PageText(c.page, top.content)))
             ELSE Extract([c EXCEPT !.stack =
                      [SubSeq(c.stack, 1, d - 1) EXCEPT
                          ![d - 1].content = @ \o top.content,
                          ![d - 1].i = @ + 1]], TRUE)
        ELSE LET b == top.blocks[top.i]
             IN  IF fresh
                 THEN LET c1 == [c EXCEPT !.stack[d].content = @ \o Render(b)]
                      IN  IF b.has_children /\ top.i = 1
                          THEN Await(c1, Request(NotionClient(c.srv.config), "GET",
                                                 ChildrenUrl(b.id), FALSE, {}),
                                     "child")
                          ELSE Extract([c1 EXCEPT !.stack[d].i = @ + 1], TRUE)
                 ELSE Extract([c EXCEPT !.stack[d].i = @ + 1], TRUE)

Extract(c, fresh) ==
    LET d == Len(c.stack)
        top == c.stack[d]
    IN  IF top.i > Len(top.blocks)
        THEN IF d = 1
             THEN Settle(c, Success(PageText(c.page, top.content)))
             ELSE Extract([c EXCEPT !.stack =
                      [SubSeq(c.stack, 1, d - 1) EXCEPT
                          ![d - 1].content = @ \o top.content,
                          ![d - 1].i = @ + 1]], TRUE)
        ELSE LET b == top.blocks[top.i]
             IN  IF fresh
                 THEN LET c1 == [c EXCEPT !.stack[d].content = @ \o Render(b)]
                      IN  IF b.has_children
                          THEN Await(c1, Request(NotionClient(c.srv.config), "GET",
                                                 ChildrenUrl(b.id), FALSE, {}),
                                     "child")
                          ELSE Extract([c1 EXCEPT !.stack[d].i = @ + 1], TRUE)
                 ELSE Extract([c EXCEPT !.stack[d].i = @ + 1], TRUE)

Frame(blocks) == [blocks |-> blocks, i |-> 1, content |-> <<>>]

\* the text of search_notion, list_databases and query_database
FoundText(what, results) ==
    <<"Found ", Numeral(Len(results)), what>>
    \o [i \in 1..Len(results) |-> results[i].id]

\* a default case outside the try: the error escapes the handler
DefaultCaseUncaught(c) ==
    Settle(c, [settled |-> "thrown", isError |-> FALSE,
               text |-> UnknownToolError(c.name).message])

\* default: throw new Error(`Unknown tool: ${name}`), caught by the handler's
\* own catch
DefaultCase(c) == Settle(c, CatchBlock(UnknownToolError(c.name)))

\* an update that also sends the content argument, as a child block
UpdateDataWithContent(a) ==
    (IF Truthy(Get(a, "title"))
     THEN {<<"properties.title[0].text.content", Get(a, "title")>>} ELSE {})
    \cup (IF Truthy(Get(a, "content"))
          THEN {<<"children[0].paragraph.rich_text[0].text.content",
                  Get(a, "content")>>}
          ELSE {})

\* updateData of update_page: an empty object, given properties.title only
\* when args.title is truthy
UpdateData(a) ==
    IF Truthy(Get(a, "title"))
    THEN {<<"properties.title[0].text.content", Get(a, "title")>>}
    ELSE {}

\* The try block from its start to the first await, or to the return or throw
\* that ends it: the switch on the tool name.
TryBlock(c) ==
    LET client == NotionClient(c.srv.config)
        a == c.args
        bound == c.name \in BoundTools(c.srv.variant)
    IN  CASE bound /\ c.name = "search_notion" ->
                 IF ~c.hasArgs THEN Settle(c, CatchBlock(TypeErrorReading("query")))
                 ELSE Await(c, Request(client, "POST", <<"/v1/search">>, TRUE,
                                {<<"query", Get(a, "query")>>,
                                 <<"page_size", Num("10")>>}), "search")
          [] bound /\ c.name = "get_page_content" ->
                 IF ~c.hasArgs THEN Settle(c, CatchBlock(TypeErrorReading("page_id")))
                 ELSE Await(c, Request(client, "GET",
                                <<"/v1/pages/", ToStr(Get(a, "page_id"))>>,
                                FALSE, {}), "page")
          [] bound /\ c.name = "create_page" ->
                 IF ~c.hasArgs THEN Settle(c, CatchBlock(TypeErrorReading("parent_id")))
                 ELSE Await(c, Request(client, "POST", <<"/v1/pages">>, TRUE,
                                {<<"parent.page_id", Get(a, "parent_id")>>,
                                 <<"properties.title[0].text.content",
                                   Get(a, "title")>>}), "create")
          [] bound /\ c.name = "update_page" ->
                 IF ~c.hasArgs THEN Settle(c, CatchBlock(TypeErrorReading("title")))
                 ELSE Await(c, Request(client, "PATCH",
                                <<"/v1/pages/", ToStr(Get(a, "page_id"))>>, TRUE,
                                UpdateData(a)), "update")
          [] bound /\ c.name = "list_databases" ->
                 Await(c, Request(client, "POST", <<"/v1/search">>, TRUE,
                                {<<"filter.property", Str("object")>>,
                                 <<"filter.value", Str("database")>>}), "listdb")
          [] bound /\ c.name = "query_database" ->
                 IF ~c.hasArgs
                 THEN Settle(c, CatchBlock(TypeErrorReading("database_id")))
                 ELSE IF Truthy(Get(a, "filter")) /\ ~JsonValid(Get(a, "filter"))
                 THEN Settle(c, CatchBlock(SyntaxErrorJson))
                 ELSE Await(c, Request(client, "POST",
                                <<"/v1/databases/", ToStr(Get(a, "database_id")),
                                  "/query">>, TRUE,
                                {<<"page_size", IF Truthy(Get(a, "page_size"))
                                                THEN Get(a, "page_size")
                                                ELSE Num("10")>>,
                                 <<"filter", IF Truthy(Get(a, "filter"))
                                             THEN Get(a, "filter") ELSE Undef>>}),
                            "querydb")
          [] OTHER -> DefaultCase(c)

\* a fetch of a block's children outside any try: its failure ends the call
ChildAnsweredNoTry(c, o) ==
    IF o.kind = "2xx" /\ o.hasResults
    THEN Extract([c EXCEPT !.stack = Append(@, Frame(o.results))], TRUE)
    ELSE Settle(c, CatchBlock(IF o.kind = "2xx" THEN TypeErrorNoResults
                              ELSE AxiosError(o)))

\* The try around the fetch of a block's children and the recursion on them:
\* with a listing the traversal goes down into it, and when the request fails
\* or the body has no results the catch logs and the loop goes on with the
\* next block.
ChildAnswered(c, o) ==
    IF o.kind = "2xx" /\ o.hasResults
    THEN Extract([c EXCEPT !.stack = Append(@, Frame(o.results))], TRUE)
    ELSE Extract(c, FALSE)

\* a handler that sends the request again when nothing came back
ContinueRetry(c, o) ==
    IF o.kind = "transport" /\ Len(c.reqs) < 2
    THEN Await(c, Last(c.reqs), c.stage)
    ELSE Settle(c, IF o.kind = "2xx" THEN Success(<<"ok">>)
                   ELSE CatchBlock(AxiosError(o)))

\* The handler from the await it is suspended at, given what the upstream
\* answered, to its next await or to its return.
Continue(c, o) ==
    IF c.stage = "child" THEN ChildAnswered(c, o)
    ELSE IF o.kind # "2xx" THEN Settle(c, CatchBlock(AxiosError(o)))
    ELSE CASE c.stage = "search" ->
                  IF ~o.hasResults THEN Settle(c, CatchBlock(TypeErrorNoResults))
                  ELSE Settle(c, Success(FoundText(" results for ", o.results)))
           [] c.stage = "listdb" ->
                  IF ~o.hasResults THEN Settle(c, CatchBlock(TypeErrorNoResults))
                  ELSE Settle(c, Success(FoundText(" databases:", o.results)))
           [] c.stage = "querydb" ->
                  IF ~o.hasResults THEN Settle(c, CatchBlock(TypeErrorNoResults))
                  ELSE Settle(c, Success(FoundText(" results in database:", o.results)))
           [] c.stage = "page" ->
                  IF c.srv.variant = "six"
                  THEN Settle(c, Success(PageTextSix(o.page)))
                  ELSE Await([c EXCEPT !.page = o.page],
                             Request(NotionClient(c.srv.config), "GET",
                                     ChildrenUrl(ToStr(Get(c.args, "page_id"))),
                                     FALSE, {}), "blocks")
           [] c.stage = "blocks" ->
                  IF ~o.hasResults THEN Settle(c, CatchBlock(TypeErrorNoResults))
                  ELSE Extract([c EXCEPT !.stack = <<Frame(o.results)>>], TRUE)
           [] c.stage = "create" ->
                  Settle(c, Success(<<"Successfully created page ",
                                      ToStr(Get(c.args, "title")), " with ID: ",
                                      ToStr(o.id)>>))
           [] c.stage = "update" ->
                  Settle(c, Success(<<"Successfully updated page ",
                                      ToStr(Get(c.args, "page_id"))>>))

-----------------------------------------------------------------------------
(* Requests to a server.  The handlers in src/ are those of the hand-written *)
(* servers; the proxy's handlers are registered by initProxy.               *)

\* a tools/list request is answered by the ListToolsRequestSchema handler
ListTools(srv) ==
    /\ call.pc = "idle"
    /\ srv.variant # "proxy"
    /\ "tools/list" \in srv.handlers
    /\ call' = Settle([IdleCall EXCEPT !.method = "tools/list", !.srv = srv],
                      Success(ListedTools(srv.variant)))
    /\ UNCHANGED <<env, servers, startup, pending, calls>>

ToolsList == \E srv \in servers : ListTools(srv)

ToolNames == {"search_notion", "get_page_content", "create_page", "update_page",
              "list_databases", "query_database", "notion-test", "no_such_tool"}

\* values a caller passes for an argument
ArgValues(f) ==
    CASE f = "content" -> {Str("text")}
      [] f = "message" -> {Str("hello")}
      [] f = "filter" -> {Str(""), Str("p1"), Str("{}")}
      [] f = "page_size" -> {Num("0"), Num("5")}
      [] f = "Authorization" -> {Str("Bearer evil")}
      [] f \in {"page_id", "database_id"} -> {Str(""), Str("p1"), Str("p1/x?y")}
      [] OTHER -> {Str(""), Str("p1")}

\* every object with exactly the keys D
RECURSIVE Objects(_)
Objects(D) ==
    IF D = {} THEN {<<>>}
    ELSE LET f == CHOOSE x \in D : TRUE
         IN  {[k \in DOMAIN o \cup {f} |-> IF k = f THEN v ELSE o[k]] :
                 o \in Objects(D \ {f}), v \in ArgValues(f)}

\* The arguments objects tried for a tool: every object over a subset of its
\* schema's properties, and those with all of them and a key the schema does
\* not have.
ArgObjects ==
    [name \in ToolNames |->
        UNION {Objects(D) : D \in SUBSET Props(name)}
        \cup Objects(Props(name) \cup {"Authorization"})]

\* A tools/call request reaches a server: without a registered handler the
\* protocol layer answers it; otherwise the handler runs to its first await.
StartCall(srv, name, hasArgs, args) ==
    /\ call.pc = "idle"
    /\ srv.variant # "proxy"
    /\ LET c == [IdleCall EXCEPT !.method = "tools/call", !.srv = srv,
                                 !.name = name, !.hasArgs = hasArgs, !.args = args]
       IN  call' = IF "tools/call" \in srv.handlers THEN TryBlock(c)
                   ELSE Settle(c, MethodNotFound)
    /\ UNCHANGED <<env, servers, startup, pending, calls>>

CallTool ==
    \E srv \in servers, name \in ToolNames :
        \/ StartCall(srv, name, FALSE, <<>>)
        \/ \E args \in ArgObjects[name] : StartCall(srv, name, TRUE, args)

\* the upstream answers the request the call is suspended on
Answer(o) ==
    /\ call.pc = "waiting"
    /\ call' = Continue(Answered(call, o), o)
    /\ UNCHANGED <<env, servers, startup, pending, calls>>

Respond == \E o \in Outcomes(call.stage, Len(call.stack)) : Answer(o)

\* the result has been delivered and the call's record is dropped
Deliver ==
    /\ call.pc = "done"
    /\ call' = IdleCall
    /\ UNCHANGED <<env, servers, startup, pending, calls>>

-----------------------------------------------------------------------------
(* Two invocations of the call handler at once.  The handler is an async   *)
(* function: each invocation has its own name, args, notionClient and, in  *)
(* get_page_content, its own extractTextFromBlocks and content; between    *)
(* two awaits it runs without interruption, and at an await another        *)
(* invocation may run.                                                     *)

Slots == {1, 2}

\* an invocation and the answers the upstream has given it so far
IdleSlot == [c |-> IdleCall, answers |-> <<>>]

NoCalls == [i \in Slots |-> IdleSlot]

\* the server both invocations belong to: createServer of index.ts, given a
\* secret_ token and no base URL
PairConfig == Parse("index", Raw(Given(TokSecret), Absent, ""))
PairServer == NewServer("index", PairConfig)

PairTools == {"search_notion", "get_page_content", "update_page"}

\* the arguments objects of the two invocations: exactly the required keys,
\* none of them empty
PairArgs(name) ==
    {a \in ArgObjects[name] :
        DOMAIN a = Required(name) /\ \A k \in DOMAIN a : Truthy(a[k])}

\* what the upstream answers them: a 404 with a message, or a 2xx response
\* with a body of the expected shape (a page with a title, a listing of
\* search results, a listing of blocks with one parent block at most)
PairOutcomes(stage, depth) ==
    {o \in Outcomes(stage, depth) :
        \/ o = Http("404", Str(UpstreamMessage))
        \/ /\ o.kind = "2xx"
           /\ o.hasResults \/ o.page = Page1 \/ stage = "update"
           /\ o.results \in ItemLists \cup {<<>>, <<BlockPara>>, <<BlockHead, BlockPara>>}}

\* the request reaches the handler, which runs to its first await
StartSlot(i, name, args) ==
    /\ calls[i].c.pc = "idle"
    /\ LET c == [IdleCall EXCEPT !.method = "tools/call", !.srv = PairServer,
                                 !.name = name, !.hasArgs = TRUE, !.args = args]
       IN  calls' = [calls EXCEPT ![i] = [c |-> TryBlock(c), answers |-> <<>>]]
    /\ UNCHANGED <<env, servers, startup, pending, call>>

CallToolConcurrently ==
    \E i \in Slots, name \in PairTools : \E args \in PairArgs(name) :
        StartSlot(i, name, args)

\* a handler that keeps args in a variable outside the invocation: when it
\* resumes it reads the arguments of the other request in flight
AnswerSlotShared(i, o) ==
    /\ calls[i].c.pc = "waiting"
    /\ LET own == calls[i].c
           other == calls[CHOOSE j \in Slots : j # i].c
           seen == IF other.pc = "idle" THEN own
                   ELSE [own EXCEPT !.args = other.args]
       IN  calls' = [calls EXCEPT ![i] =
                        [c |-> [Continue(Answered(seen, o), o) EXCEPT
                                    !.args = own.args],
                         answers |-> Append(@.answers, o)]]
    /\ UNCHANGED <<env, servers, startup, pending, call>>

\* the upstream answers the request invocation i is suspended on, and the
\* invocation runs on to its next await or to its return
AnswerSlot(i, o) ==
    /\ calls[i].c.pc = "waiting"
    /\ calls' = [calls EXCEPT ![i] =
                     [c |-> Continue(Answered(@.c, o), o),
                      answers |-> Append(@.answers, o)]]
    /\ UNCHANGED <<env, servers, startup, pending, call>>

RespondConcurrently ==
    \E i \in Slots :
        \E o \in PairOutcomes(calls[i].c.stage, Len(calls[i].c.stack)) :
            AnswerSlot(i, o)

\* the state createServer of index.ts leaves behind
InitConcurrent ==
    /\ env = EnvPlain(NoEnv, PairConfig)
    /\ servers = {PairServer}
    /\ startup = [NoStartup EXCEPT !.n = 1, !.returned = 1, !.outcome = "returned",
                                   !.token = TokSecret]
    /\ pending = NoPending
    /\ call = IdleCall
    /\ calls = NoCalls

NextConcurrent ==
    \/ CallToolConcurrently
    \/ RespondConcurrently

SpecConcurrent == InitConcurrent /\ [][NextConcurrent]_vars

-----------------------------------------------------------------------------

Init ==
    /\ env = NoEnv
    /\ servers = {}
    /\ startup = NoStartup
    /\ pending = NoPending
    /\ call = IdleCall
    /\ calls = NoCalls

Next ==
    \/ ConfigRejected
    \/ CreateServer
    \/ CreateServerProxy
    \/ InitProxySettles
    \/ ToolsList
    \/ CallTool
    \/ Respond
    \/ Deliver

Spec == Init /\ [][Next]_vars

\* A process in which createServer is called several times, with the same or
\* other configurations, while the servers it returned go on serving calls
\* (those of the two-invocation specification, one at a time).
InitRestarts ==
    /\ env = NoEnv
    /\ servers = {}
    /\ startup = [NoStartup EXCEPT !.limit = MaxAttempts]
    /\ pending = NoPending
    /\ call = IdleCall
    /\ calls = NoCalls

CallToolAgain ==
    \E srv \in servers, name \in PairTools : \E args \in PairArgs(name) :
        StartCall(srv, name, TRUE, args)

RespondAgain == \E o \in PairOutcomes(call.stage, Len(call.stack)) : Answer(o)

NextRestarts ==
    \/ ConfigRejected
    \/ CreateServer
    \/ CreateServerProxy
    \/ InitProxySettles
    \/ CallToolAgain
    \/ RespondAgain
    \/ Deliver

SpecRestarts == InitRestarts /\ [][NextRestarts]_vars

\* What the scheduling guarantees: a settled handler's result is sent, and
\* initProxy, which reads a local file, settles.  Nothing makes the upstream
\* answer, and the client of the call handler is created without a timeout
\* option (axios then waits without limit), so no step is owed to a call that
\* is suspended on a request.
LiveSpec == Spec /\ WF_vars(Deliver) /\ WF_vars(InitProxySettles)

-----------------------------------------------------------------------------
(* Properties *)

\* the call in flight is a tools/call that the server's call handler took
Handled == /\ call.pc # "idle"
           /\ call.method = "tools/call"
           /\ "tools/call" \in call.srv.handlers

Contains(text, piece) == \E i \in 1..Len(text) : text[i] = piece

\* the required properties of the called tool that the arguments leave out
MissingRequired(c) ==
    IF c.hasArgs THEN {f \in Required(c.name) : Get(c.args, f).t = "undef"}
    ELSE Required(c.name)

\* C1: a call of a registered tool that leaves out a required argument issues
\* no HTTP request and returns isError = true with a text naming a missing
\* field.
C1_MissingArgumentRejected ==
    (Handled /\ call.name \in BoundTools(call.srv.variant)
             /\ MissingRequired(call) # {})
    => /\ call.reqs = <<>>
       /\ call.pc = "done"
       /\ call.result.settled = "returned"
       /\ call.result.isError
       /\ \E f \in MissingRequired(call) : Contains(call.result.text, f)

\* C2: a call of a name the call handler has no case for returns isError =
\* true with the text "Unknown tool: <name>"; the handler's promise resolves
\* (nothing is thrown) and no HTTP request is issued.
C2_UnknownToolIsErrorResult ==
    (Handled /\ call.name \notin BoundTools(call.srv.variant))
    => /\ call.pc = "done"
       /\ call.result.settled = "returned"
       /\ call.result.isError
       /\ call.result.text = <<"Error: ", "Unknown tool: ", call.name>>
       /\ call.reqs = <<>>

C2_Witness ==
    /\ Handled
    /\ call.name = "no_such_tool"
    /\ call.hasArgs
    /\ call.pc = "done"
    /\ call.srv.variant = "index"

\* C3: every server createServer has returned, and every createServer waiting
\* on initProxy, was given exactly one of the token and the header set.
C3_ExactlyOneCredential ==
    /\ \A srv \in servers :
           Supplied(srv.config.notionToken) # Supplied(srv.config.openapiMcpHeaders)
    /\ pending.active =>
           Supplied(pending.config.notionToken)
               # Supplied(pending.config.openapiMcpHeaders)

\* C4: every HTTP request a tool call issues, the nested child-block fetches
\* included, carries Authorization: Bearer <the server's token>, Notion-Version
\* 2022-06-28 and Content-Type application/json, and no other header, whatever
\* the arguments are.
C4_EveryRequestCarriesAuth ==
    Handled =>
        \A i \in 1..Len(call.reqs) :
            LET h == call.reqs[i].headers
                tok == call.srv.config.notionToken.s
            IN  /\ DOMAIN h = {"Authorization", "NotionVersion", "ContentType"}
                /\ Len(h.Authorization) = Len(tok) + 1
                /\ h.Authorization[1] = "Bearer "
                /\ \A k \in 1..Len(tok) : h.Authorization[k + 1] = tok[k]
                /\ h.NotionVersion = "2022-06-28"
                /\ h.ContentType = "application/json"

C4_Witness ==
    /\ Handled
    /\ call.name = "get_page_content"
    /\ "Authorization" \in DOMAIN call.args
    /\ Len(call.reqs) >= 3
    /\ call.reqs[3].url[1] = "/v1/blocks/"
    /\ call.pc = "done"

\* C5: when the request of a tool call gets a 4xx/5xx response the call returns
\* an error Result, and when it gets no response at all the failure is not
\* returned as a Result (it reaches the caller as a failure of the call).
C5_TransportFailureNotAResult ==
    (Handled /\ call.pc = "done" /\ call.answered > 0
             /\ call.last.stage # "child")
    => LET a == call.last
       IN  /\ a.kind = "http" =>
                  call.result.settled = "returned" /\ call.result.isError
           /\ a.kind = "transport" => call.result.settled # "returned"

\* C6: whatever the tool name, the arguments (none at all included) and the
\* upstream's answers, a call the handler has finished returned a Result with
\* a text and an error flag; it never threw.
C6_HandlerAlwaysReturnsResult ==
    Handled =>
        /\ call.pc \in {"waiting", "done"}
        /\ call.pc = "waiting" => Len(call.reqs) = call.answered + 1
        /\ call.pc = "done" =>
               /\ call.result.settled = "returned"
               /\ call.result.isError \in BOOLEAN
               /\ call.result.text # <<>>
               /\ Len(call.reqs) = call.answered

C6_Witness ==
    /\ Handled
    /\ call.pc = "done"
    /\ ~call.hasArgs
    /\ call.name = "update_page"
    /\ call.result.isError

\* C7: a call whose requests all got well-formed 2xx responses returns a
\* non-error Result, and a call whose request got a 4xx/5xx response returns an
\* error Result whose text carries the upstream status and, when the body has
\* one, the upstream message.
C7_UpstreamStatusAndMessage ==
    (Handled /\ call.pc = "done" /\ call.answered > 0)
    => LET a == call.last
       IN  /\ call.allWell => ~call.result.isError
           /\ (a.kind = "http" /\ a.stage # "child") =>
                  /\ call.result.isError
                  /\ Contains(call.result.text, a.status)
                  /\ Truthy(a.dataMessage) =>
                         Contains(call.result.text, a.dataMessage.v)

WriteTools == {"search_notion", "create_page", "update_page", "list_databases",
               "query_database"}

C9_ListedToolsAreBound ==
    (call.pc = "done" /\ call.method = "tools/list")
    => LET names == call.result.text
       IN  /\ \A i, j \in 1..Len(names) : names[i] = names[j] => i = j
           /\ "tools/call" \in call.srv.handlers
           /\ {names[i] : i \in 1..Len(names)} = BoundTools(call.srv.variant)

\* C10: a request is only handled by a server that a createServer call
\* returned; a createServer call that throws (token format, initProxy) or whose
\* configuration is rejected adds no server, and no hand-written server exists
\* with a token of the wrong format.
C10_ServedOnlyAfterStartup ==
    /\ call.pc # "idle" => call.srv \in servers
    /\ Cardinality(servers) <= startup.returned
    /\ startup.returned <= startup.n
    /\ startup.outcome \in {"thrown", "config_rejected", "pending"} =>
           startup.returned < startup.n
    /\ \A srv \in servers :
           srv.variant # "proxy" => TokenFormatOk(srv.config.notionToken.s)

C10_Witness ==
    /\ startup.outcome = "thrown"
    /\ startup.error = "Invalid Notion token format"
    /\ servers = {}
    /\ call.pc = "idle"

\* C11: a tool call that is suspended on an HTTP request eventually completes,
\* even when the upstream never answers (a per-call timeout ends the wait).
C11_CallEventuallyCompletes ==
    (Handled /\ call.pc = "waiting") ~> (call.pc = "done")

\* C12: every request of every call a server serves carries the token and the
\* base URL of the configuration the server was created with, and the server
\* is still the one createServer returned, whatever createServer calls came
\* later and whatever process.env holds by then.
C12_CredentialsFixedAtCreation ==
    Handled =>
        /\ call.srv \in servers
        /\ \A i \in 1..Len(call.reqs) :
               /\ call.reqs[i].baseURL = call.srv.config.baseUrl
               /\ call.reqs[i].headers.Authorization
                      = <<"Bearer ">> \o call.srv.config.notionToken.s

C12_Witness ==
    /\ Handled
    /\ call.pc = "done"
    /\ Len(call.reqs) >= 2
    /\ startup.n = 2
    /\ env.NOTION_TOKEN.present
    /\ env.NOTION_TOKEN.s # call.srv.config.notionToken.s
    /\ env.BASE_URL # Given(<<call.srv.config.baseUrl>>)

\* an invocation with the given inputs run alone against the given answers
RECURSIVE RunAlone(_, _)
RunAlone(c, answers) ==
    IF answers = <<>> \/ c.pc # "waiting" THEN c
    ELSE RunAlone(Continue(Answered(c, Head(answers)), Head(answers)),
                  Tail(answers))

Alone(s) ==
    RunAlone(TryBlock([IdleCall EXCEPT !.method = "tools/call", !.srv = s.c.srv,
                                       !.name = s.c.name, !.hasArgs = s.c.hasArgs,
                                       !.args = s.c.args]),
             s.answers)

UrlReserved == {"/", "?", "#"}

\* C14: in every request whose path is built from an argument (page_id,
\* database_id), the argument's value adds no path segment and no query string:
\* what is put into the template holds no "/", "?" or "#".
C14_PathParameterEncoded ==
    Handled =>
        \A i \in 1..Len(call.reqs) :
            LET url == call.reqs[i].url
            IN  Len(url) >= 2 =>
                    \A k \in 1..Len(Chars(url[2])) :
                        Chars(url[2])[k] \notin UrlReserved

\* The traversal the claims describe, over the recorded answers L: the blocks
\* of a listing in document order from the i-th on, each rendered, and for each
\* block with children one request, answered by L[k], whose listing (when
\* there is one) is walked before the next sibling.  Yields the urls requested,
\* the text gathered and the index of the next unused answer.
RECURSIVE Walk(_, _, _, _)
Walk(L, blocks, i, k) ==
    IF i > Len(blocks) THEN [urls |-> <<>>, content |-> <<>>, k |-> k]
    ELSE LET b == blocks[i]
             sub == IF ~b.has_children THEN [urls |-> <<>>, content |-> <<>>, k |-> k]
                    ELSE IF k <= Len(L) /\ L[k].ok
                    THEN LET w == Walk(L, L[k].blocks, 1, k + 1)
                         IN  [urls |-> <<ChildrenUrl(b.id)>> \o w.urls,
                              content |-> w.content, k |-> w.k]
                    ELSE [urls |-> <<ChildrenUrl(b.id)>>, content |-> <<>>,
                          k |-> k + 1]
             rest == Walk(L, blocks, i + 1, sub.k)
         IN  [urls |-> sub.urls \o rest.urls,
              content |-> Render(b) \o sub.content \o rest.content,
              k |-> rest.k]

\* a get_page_content call of the server of index.ts
PageCall == /\ Handled
            /\ call.name = "get_page_content"
            /\ call.srv.variant = "index"
            /\ call.hasArgs

PageId == ToStr(Get(call.args, "page_id"))

\* C15: get_page_content requests the page first and the page's children
\* second, only after the page was answered; when either request fails the
\* call ends there with isError = true; once the page's children are listed
\* the call returns a non-error Result whose text holds the rendering of every
\* block of every listing received, whichever nested children requests failed,
\* the blocks after a failed one included.
C15_NestedFailuresSwallowed ==
    PageCall =>
        /\ Len(call.reqs) >= 1 => call.reqs[1].url = <<"/v1/pages/", PageId>>
        /\ Len(call.reqs) >= 2 => /\ call.reqs[2].url = ChildrenUrl(PageId)
                                  /\ call.answered >= 1
        /\ (call.answered > 0 /\ call.last.stage \in {"page", "blocks"}
                              /\ call.last.kind # "2xx")
           => /\ call.pc = "done"
              /\ call.result.isError
              /\ Len(call.reqs) = call.answered
        /\ (call.pc = "done" /\ call.listings # <<>> /\ call.listings[1].ok)
           => /\ ~call.result.isError
              /\ call.result.text
                     = PageText(call.page,
                                Walk(call.listings, call.listings[1].blocks, 1, 2).content)
              /\ \A k \in 1..Len(call.listings) :
                     \A j \in 1..Len(call.listings[k].blocks) :
                         \A n \in 1..Len(Render(call.listings[k].blocks[j])) :
                             Contains(call.result.text,
                                      Render(call.listings[k].blocks[j])[n])

C15_Witness ==
    /\ PageCall
    /\ call.pc = "done"
    /\ Len(call.listings) = 3
    /\ call.listings[1].blocks = <<BlockHead, BlockTodo>>
    /\ ~call.listings[2].ok
    /\ call.listings[3].blocks = <<BlockPara>>
    /\ ~call.result.isError
    /\ Contains(call.result.text, "head")
    /\ Contains(call.result.text, "para")

HasTokenPrefix(tok) ==
    \/ Len(tok) >= 7 /\ SubSeq(tok, 1, 7) = <<"s", "e", "c", "r", "e", "t", "_">>
    \/ Len(tok) >= 4 /\ SubSeq(tok, 1, 4) = <<"n", "t", "n", "_">>

\* C18: a call of the hand-written createServer returns a server exactly when
\* the token begins with secret_ or ntn_; when it throws, process.env and the
\* set of servers (and so of registered handlers) are as they were before the
\* call; when it returns, the server holds the token and its handlers, and
\* process.env.NOTION_TOKEN is the token.
C18_BadTokenLeavesNoTrace ==
    [][(startup'.n = startup.n + 1 /\ startup'.outcome \in {"returned", "thrown"})
       => LET tok == startup'.token
          IN  /\ startup'.outcome = "returned" <=> HasTokenPrefix(tok)
              /\ startup'.outcome = "thrown" =>
                     /\ env' = env
                     /\ servers' = servers
                     /\ startup'.error = "Invalid Notion token format"
              /\ startup'.outcome = "returned" =>
                     /\ env'.NOTION_TOKEN = Given(tok)
                     /\ \E srv \in servers' :
                            /\ srv.config.notionToken.s = tok
                            /\ "tools/list" \in srv.handlers]_vars

C18_Witness ==
    /\ startup.n = 2
    /\ startup.outcome = "thrown"
    /\ startup.token = TokInner
    /\ servers # {}
    /\ env.NOTION_TOKEN = Given(TokSecret)
    /\ env.BASE_URL = Given(<<DefaultBaseUrl>>)

====
